---- MODULE Spec2Model ----
(***************************************************************************)
(* The data loader of the Seoul real-estate dashboard (src/app.py): the    *)
(* memoised function load_and_process_data, which reads the population     *)
(* workbook, pivots it to one row per district, estimates the infant /     *)
(* elementary / adolescent populations, joins the two embedded reference   *)
(* tables, and the script run that renders its result.                     *)
(*                                                                         *)
(* Text is a sequence of characters.  A hangul syllable is one character,  *)
(* written romanised ("gang" "nam" "gu" for the three syllables of         *)
(* Gangnam-gu, "gye" for the aggregate label, "se" for the age suffix).    *)
(* Numbers of a DataFrame are exact rationals extended with inf and NaN;   *)
(* the rounding of binary floating point is not modelled.  The order of    *)
(* the rows of a DataFrame is not modelled: a table is a bag of rows.      *)
(***************************************************************************)
EXTENDS Integers, Sequences, FiniteSets, Bags, TLC

VARIABLES file, cache, pc, locals, exc, df, shown, hit

vars == <<file, cache, pc, locals, exc, df, shown, hit>>

-----------------------------------------------------------------------------
(* Bounds of the model. *)

\* The most distinct district labels in one population workbook.
MaxDistricts == 2

\* The most year columns in one population workbook.
MaxYearCols == 2

-----------------------------------------------------------------------------
(* Text. *)

Whitespace == {" ", "\t"}

RECURSIVE lstrip(_)
lstrip(s) ==
    IF s # <<>> /\ s[1] \in Whitespace THEN lstrip(Tail(s)) ELSE s

RECURSIVE rstrip(_)
rstrip(s) ==
    IF s # <<>> /\ s[Len(s)] \in Whitespace
    THEN rstrip(SubSeq(s, 1, Len(s) - 1))
    ELSE s

\* str.strip(): the text without its leading and trailing whitespace.
strip(s) == rstrip(lstrip(s))

\* Variant of contains: the label has to be the keyword itself.
contains_exact(k, s) == k = s

\* k in s, for two texts: k occurs in s as a contiguous run.
contains(k, s) ==
    \E i \in 0..(Len(s) - Len(k)) : SubSeq(s, i + 1, i + Len(k)) = k

-----------------------------------------------------------------------------
(* Numbers: rationals n/d in lowest terms, inf and NaN. *)

RECURSIVE gcd(_, _)
gcd(a, b) == IF b = 0 THEN a ELSE gcd(b, a % b)

Fin(n, d) == LET g == gcd(n, d) IN [k |-> "fin", n |-> n \div g, d |-> d \div g]

Whole(n) == [k |-> "fin", n |-> n, d |-> 1]

INF == [k |-> "inf", n |-> 1, d |-> 0]

NAN == [k |-> "nan", n |-> 0, d |-> 0]

isfinite(x) == x.k = "fin"

add(x, y) ==
    IF x.k = "nan" \/ y.k = "nan" THEN NAN
    ELSE IF x.k = "inf" \/ y.k = "inf" THEN INF
    ELSE Fin(x.n * y.d + y.n * x.d, x.d * y.d)

mul(x, y) ==
    IF x.k = "nan" \/ y.k = "nan" THEN NAN
    ELSE IF x.k = "inf" \/ y.k = "inf"
         THEN IF x.n = 0 \/ y.n = 0 THEN NAN ELSE INF
    ELSE Fin(x.n * y.n, x.d * y.d)

\* Variant of truediv: a zero divisor gives 0.
truediv_guarded(x, y) ==
    IF x.k = "fin" /\ y.k = "fin" /\ y.n # 0 THEN Fin(x.n * y.d, x.d * y.n)
    ELSE Whole(0)

\* Series / Series: element-wise float division, which does not raise on a
\* zero divisor: x/0 is inf, 0/0 is NaN.
truediv(x, y) ==
    IF x.k = "nan" \/ y.k = "nan" THEN NAN
    ELSE IF y.k = "inf" THEN (IF x.k = "inf" THEN NAN ELSE Whole(0))
    ELSE IF x.k = "inf" THEN INF
    ELSE IF y.n = 0 THEN (IF x.n = 0 THEN NAN ELSE INF)
    ELSE Fin(x.n * y.d, x.d * y.n)

\* Series.sum over a set of cells with skipna: NaN cells count as 0 and the
\* sum over no cell is 0.
RECURSIVE nansum(_, _)
nansum(cells, S) ==
    IF S = {} THEN Whole(0)
    ELSE LET c == CHOOSE c \in S : TRUE
             v == IF cells[c].k = "nan" THEN Whole(0) ELSE cells[c]
         IN  add(v, nansum(cells, S \ {c}))

-----------------------------------------------------------------------------
(* Column labels.  A label read from the workbook is a text cell or an     *)
(* integer cell; v holds the text, or the decimal digits of the integer.   *)

Text(v) == [t |-> "str", v |-> v]

Number(v) == [t |-> "int", v |-> v]

\* str(c) of a column label.
str(c) == c.v

\* int(target_year) of a text of digits.
int(s) == Number(s)

COL_GENDER == Text("seongbyeol")

COL_DISTRICT == Text("haengjeongguyeok(sigungu)byeol")

COL_AGE == Text("yeonryeongbyeol")

KeyColumns == {COL_GENDER, COL_DISTRICT, COL_AGE}

\* The aggregate label, of the gender column and of the age column.
GYE == <<"gye">>

NAMJA == <<"nam", "ja">>

-----------------------------------------------------------------------------
(* The embedded reference tables, as list(dict.items()). *)

PRICE_DATA_2024 ==
    << <<<<"gang", "nam", "gu">>, 8150>>,
       <<<<"seo", "cho", "gu">>, 7720>>,
       <<<<"yong", "san", "gu">>, 6250>>,
       <<<<"song", "pa", "gu">>, 5980>>,
       <<<<"seong", "dong", "gu">>, 5250>>,
       <<<<"ma", "po", "gu">>, 4700>>,
       <<<<"gwang", "jin", "gu">>, 4450>>,
       <<<<"yang", "cheon", "gu">>, 4400>>,
       <<<<"yeong", "deung", "po", "gu">>, 4150>>,
       <<<<"gang", "dong", "gu">>, 4100>>,
       <<<<"dong", "jak", "gu">>, 4000>>,
       <<<<"jung", "gu">>, 3850>>,
       <<<<"jong", "ro", "gu">>, 3700>>,
       <<<<"seo", "dae", "mun", "gu">>, 3500>>,
       <<<<"dong", "dae", "mun", "gu">>, 3350>>,
       <<<<"seong", "buk", "gu">>, 3150>>,
       <<<<"gang", "seo", "gu">>, 3100>>,
       <<<<"gwan", "ak", "gu">>, 3000>>,
       <<<<"eun", "pyeong", "gu">>, 2950>>,
       <<<<"gu", "ro", "gu">>, 2850>>,
       <<<<"no", "won", "gu">>, 2800>>,
       <<<<"jung", "rang", "gu">>, 2650>>,
       <<<<"gang", "buk", "gu">>, 2600>>,
       <<<<"geum", "cheon", "gu">>, 2550>>,
       <<<<"do", "bong", "gu">>, 2450>> >>

ACADEMY_DATA ==
    << <<<<"gang", "nam", "gu">>, 2578>>,
       <<<<"yang", "cheon", "gu">>, 1050>>,
       <<<<"song", "pa", "gu">>, 1155>>,
       <<<<"seo", "cho", "gu">>, 1187>>,
       <<<<"no", "won", "gu">>, 739>>,
       <<<<"gang", "dong", "gu">>, 680>>,
       <<<<"seong", "buk", "gu">>, 550>>,
       <<<<"ma", "po", "gu">>, 520>>,
       <<<<"gang", "seo", "gu">>, 600>>,
       <<<<"eun", "pyeong", "gu">>, 538>>,
       <<<<"dong", "jak", "gu">>, 450>>,
       <<<<"yeong", "deung", "po", "gu">>, 430>>,
       <<<<"seo", "dae", "mun", "gu">>, 370>>,
       <<<<"gwang", "jin", "gu">>, 390>>,
       <<<<"dong", "dae", "mun", "gu">>, 350>>,
       <<<<"gwan", "ak", "gu">>, 380>>,
       <<<<"seong", "dong", "gu">>, 320>>,
       <<<<"gu", "ro", "gu">>, 340>>,
       <<<<"jung", "rang", "gu">>, 300>>,
       <<<<"do", "bong", "gu">>, 290>>,
       <<<<"gang", "buk", "gu">>, 220>>,
       <<<<"geum", "cheon", "gu">>, 200>>,
       <<<<"yong", "san", "gu">>, 180>>,
       <<<<"jong", "ro", "gu">>, 230>>,
       <<<<"jung", "gu">>, 150>> >>

\* A column name the program itself writes, as a text of one token.
Name(s) == <<s>>

-----------------------------------------------------------------------------
(* The population workbooks the model draws from. *)

\* Age labels as the statistics office writes them, blanks around the hyphen.
A_0_4 == <<"0", " ", "-", " ", "4", "se">>

A_5_9 == <<"5", " ", "-", " ", "9", "se">>

A_10_14 == <<"1", "0", " ", "-", " ", "1", "4", "se">>

A_15_19 == <<"1", "5", " ", "-", " ", "1", "9", "se">>

A_20_24 == <<"2", "0", " ", "-", " ", "2", "4", "se">>

\* The same brackets written without blanks.
U_0_4 == <<"0", "-", "4", "se">>

U_5_9 == <<"5", "-", "9", "se">>

U_10_14 == <<"1", "0", "-", "1", "4", "se">>

U_15_19 == <<"1", "5", "-", "1", "9", "se">>

\* A second 0 - 4 label, with a trailing blank (age labels are not stripped).
A_0_4_T == A_0_4 \o <<" ">>

Spaced == {GYE, A_0_4, A_5_9, A_10_14, A_15_19}

Unspaced == {GYE, U_0_4, U_5_9, U_10_14, U_15_19}

\* No 5 - 9 label, two labels that contain "0 - 4se", and a bracket the
\* program does not use.
Irregular == (Spaced \ {A_5_9}) \cup {A_0_4_T, A_20_24}

AgeSchemes == { Spaced, Unspaced, Spaced \ {GYE}, Irregular }

GANGNAM == <<"gang", "nam", "gu">>

SEOCHO == <<"seo", "cho", "gu">>

\* A district that is in neither reference table.
SEJONG == <<"se", "jong", "si">>

DistrictLabels ==
    { GANGNAM, GANGNAM \o <<" ">>, <<" ">> \o SEOCHO \o <<" ">>, SEJONG }

DistrictSets ==
    { D \in SUBSET DistrictLabels : Cardinality(D) \in 1..MaxDistricts }

YearLabels == {Text("2024"), Number("2024"), Text("2023"), Number("2023")}

YearColumnSets ==
    { Y \in SUBSET YearLabels : Cardinality(Y) <= MaxYearCols }

\* How the counts of a workbook are filled in.  "empty_total" and
\* "empty_district" put 0 in the aggregate age row of Gangnam-gu, the latter
\* in its bracket rows too.
Populations == {"flat", "varied", "empty_total", "empty_district"}

\* The count of one bracket of one district, both sexes.
Count(p, d, a) ==
    IF p = "varied"
    THEN CASE a = GYE -> 400000
           [] a \in {A_0_4, U_0_4} -> 10000
           [] a \in {A_5_9, U_5_9} -> 20000
           [] a \in {A_10_14, U_10_14} -> 30000
           [] a \in {A_15_19, U_15_19} -> 40000
           [] a = A_0_4_T -> 1000
           [] OTHER -> 50000
    ELSE IF p \in {"empty_total", "empty_district"} /\ strip(d) = GANGNAM
              /\ (a = GYE \/ p = "empty_district")
         THEN 0
    ELSE IF a = GYE THEN 100000
    ELSE 10000

\* The year columns hold different counts, so that the column a value was
\* taken from shows in the value.
YearScale(c) ==
    CASE c = Text("2024") -> 1
      [] c = Number("2024") -> 2
      [] c = Text("2023") -> 3
      [] c = Number("2023") -> 4

\* One row of the workbook: a cell for every column.
Row(columns, d, g, a, n) ==
    [c \in columns |->
        IF c = COL_DISTRICT THEN d
        ELSE IF c = COL_GENDER THEN g
        ELSE IF c = COL_AGE THEN a
        ELSE (IF g = GYE THEN n ELSE n \div 2) * YearScale(c)]

\* A workbook: a row per district, gender and age label.
Frame(columns, D, A, p) ==
    [columns |-> columns,
     rows |-> SetToBag({ Row(columns, d, g, a, Count(p, d, a)) :
                            d \in D, g \in {GYE, NAMJA}, a \in A })]

WellFormed ==
    { Frame(KeyColumns \cup Y, D, A, p) :
        Y \in YearColumnSets, D \in DistrictSets,
        A \in AgeSchemes, p \in Populations }

\* Workbooks that lack one of the three key columns.
MissingColumn ==
    { Frame((KeyColumns \ {k}) \cup {Text("2024")}, {GANGNAM}, Spaced, "flat") :
        k \in KeyColumns }

\* A workbook in which one aggregate-gender row occurs twice.
Duplicated ==
    LET f == Frame(KeyColumns \cup {Text("2024")}, {GANGNAM}, Spaced, "flat")
        r == Row(f.columns, GANGNAM, GYE, A_0_4, 10000)
    IN  [f EXCEPT !.rows = @ (+) SetToBag({r})]

Workbooks == WellFormed \cup MissingColumn \cup {Duplicated}

-----------------------------------------------------------------------------
(* DataFrames. *)

\* pd.DataFrame(): no column and no row.
DataFrame == [columns |-> {}, rows |-> EmptyBag]

\* Variant of empty: only a frame without columns counts as empty.
empty_no_columns(d) == d.columns = {}

\* DataFrame.empty: some axis has length 0.
empty(d) == d.columns = {} \/ BagCardinality(d.rows) = 0

-----------------------------------------------------------------------------
(* The steps of load_and_process_data. *)

\* df_pop_raw[df_pop_raw['seongbyeol'] == 'gye']
filter_total(raw) ==
    [columns |-> raw.columns,
     rows |-> [r \in { x \in DOMAIN raw.rows : x[COL_GENDER] = GYE }
                  |-> raw.rows[r]]]

filter_raises(raw) ==
    IF COL_GENDER \notin raw.columns THEN "KeyError" ELSE "none"

\* Variant of target_year: line 45 left out, the label stays a text.
target_year_text(columns) ==
    IF "2024" \in { str(c) : c \in columns } THEN Text("2024") ELSE Text("2023")

target_year(columns) ==
    LET t == IF "2024" \in { str(c) : c \in columns }
             THEN Text("2024") ELSE Text("2023")
    IN  IF t \notin columns THEN int(t.v) ELSE t

\* DataFrame.pivot raises KeyError for a column that does not exist and
\* ValueError when an (index, column) pair occurs in two rows.
pivot_raises(df_pop, year) ==
    IF ~ ({COL_DISTRICT, COL_AGE, year} \subseteq df_pop.columns)
    THEN "KeyError"
    ELSE IF \E r \in DOMAIN df_pop.rows :
               \/ df_pop.rows[r] > 1
               \/ \E q \in DOMAIN df_pop.rows :
                     /\ q # r
                     /\ q[COL_DISTRICT] = r[COL_DISTRICT]
                     /\ q[COL_AGE] = r[COL_AGE]
    THEN "ValueError"
    ELSE "none"

\* df_pop.pivot(index=district, columns=age, values=year): a row per
\* district label, a column per age label, NaN where the pair has no row.
pivot(df_pop, year) ==
    LET R == DOMAIN df_pop.rows
        ages == { r[COL_AGE] : r \in R }
        cell(i, a) ==
            IF \E r \in R : r[COL_DISTRICT] = i /\ r[COL_AGE] = a
            THEN Whole((CHOOSE r \in R :
                          r[COL_DISTRICT] = i /\ r[COL_AGE] = a)[year])
            ELSE NAN
    IN  [columns |-> ages,
         rows |-> SetToBag({ [index |-> i, cells |-> [a \in ages |-> cell(i, a)]] :
                               i \in { r[COL_DISTRICT] : r \in R } })]

\* df_pivot.index = df_pivot.index.str.strip(): every row keeps its place
\* and gets the stripped label.
RECURSIVE strip_rows(_)
strip_rows(B) ==
    IF DOMAIN B = {} THEN EmptyBag
    ELSE LET r == CHOOSE r \in DOMAIN B : TRUE
         IN  ([r EXCEPT !.index = strip(@)] :> B[r])
                 (+) strip_rows([x \in DOMAIN B \ {r} |-> B[x]])

strip_index(df_pivot) == [df_pivot EXCEPT !.rows = strip_rows(@)]

\* get_sum(keyword_list) for one row: the sum of its cells in the columns
\* whose label contains one of the keywords.
get_sum(columns, cells, keyword_list) ==
    nansum(cells, { c \in columns : \E k \in keyword_list : contains(k, c) })

\* df_pivot['gye'] raises KeyError when no age label is the aggregate.
assign_raises(df_pivot) ==
    IF GYE \notin df_pivot.columns THEN "KeyError" ELSE "none"

\* Variant of infant: half of the 5 - 9 bracket, as the comment of line 60
\* words it.
infant_half(col_0_4, col_5_9) == add(col_0_4, mul(col_5_9, Fin(5, 10)))

\* df_pivot['infant'], ['elementary'], ['adolescent'] of one row.
infant(col_0_4, col_5_9) == add(col_0_4, mul(col_5_9, Fin(4, 10)))

elementary(col_5_9, col_10_14) ==
    add(mul(col_5_9, Fin(6, 10)), mul(col_10_14, Fin(6, 10)))

adolescent(col_10_14, col_15_19) ==
    add(mul(col_10_14, Fin(4, 10)), mul(col_15_19, Fin(8, 10)))

\* (df_pivot[x] / df_pivot['total_pop']) * 100 of one row.
ratio(x, total_pop) == mul(truediv(x, total_pop), Whole(100))

\* The columns lines 65-80 add to one row.
assign_row(columns, r) ==
    LET col_0_4 == get_sum(columns, r.cells, {A_0_4})
        col_5_9 == get_sum(columns, r.cells, {A_5_9})
        col_10_14 == get_sum(columns, r.cells, {A_10_14})
        col_15_19 == get_sum(columns, r.cells, {A_15_19})
        total_pop == r.cells[GYE]
        ratio_infant == ratio(infant(col_0_4, col_5_9), total_pop)
        ratio_elem == ratio(elementary(col_5_9, col_10_14), total_pop)
        ratio_adol == ratio(adolescent(col_10_14, col_15_19), total_pop)
    IN  [index |-> r.index, cells |-> r.cells,
         infant |-> infant(col_0_4, col_5_9),
         elementary |-> elementary(col_5_9, col_10_14),
         adolescent |-> adolescent(col_10_14, col_15_19),
         total_pop |-> total_pop,
         ratio_infant |-> ratio_infant, ratio_elem |-> ratio_elem,
         ratio_adol |-> ratio_adol,
         ratio_total_youth |-> add(add(ratio_infant, ratio_elem), ratio_adol)]

RECURSIVE assign_rows(_, _)
assign_rows(columns, B) ==
    IF DOMAIN B = {} THEN EmptyBag
    ELSE LET r == CHOOSE r \in DOMAIN B : TRUE
         IN  (assign_row(columns, r) :> B[r])
                 (+) assign_rows(columns, [x \in DOMAIN B \ {r} |-> B[x]])

AssignedColumns ==
    { Name("infant"), Name("elementary"), Name("adolescent"),
      Name("total_pop"), Name("ratio_infant"), Name("ratio_elem"),
      Name("ratio_adol"), Name("ratio_total_youth") }

assign(df_pivot) ==
    [columns |-> df_pivot.columns \cup AssignedColumns,
     rows |-> assign_rows(df_pivot.columns, df_pivot.rows)]

\* The value of key in list(dict.items()), as a set (empty: no such key).
lookup(items, key) == { items[i][2] : i \in { j \in 1..Len(items) : items[j][1] = key } }

\* pd.merge(df_price, df_pivot, left_on='region', right_index=True,
\* how='inner') and pd.merge(merged, df_academy, on='region', how='inner'):
\* a row for every pairing of a price entry, a pivot row of that name and an
\* academy entry of that name.
RECURSIVE merge_rows(_)
merge_rows(B) ==
    IF DOMAIN B = {} THEN EmptyBag
    ELSE LET r == CHOOSE r \in DOMAIN B : TRUE
             joined == { [region |-> r.index, price |-> p, academy_count |-> a,
                          cells |-> r.cells,
                          infant |-> r.infant, elementary |-> r.elementary,
                          adolescent |-> r.adolescent, total_pop |-> r.total_pop,
                          ratio_infant |-> r.ratio_infant,
                          ratio_elem |-> r.ratio_elem,
                          ratio_adol |-> r.ratio_adol,
                          ratio_total_youth |-> r.ratio_total_youth] :
                            p \in lookup(PRICE_DATA_2024, r.index),
                            a \in lookup(ACADEMY_DATA, r.index) }
         IN  [x \in joined |-> B[r]]
                 (+) merge_rows([x \in DOMAIN B \ {r} |-> B[x]])

merge(df_pivot) ==
    [columns |-> {Name("region"), Name("price"), Name("academy_count")}
                    \cup df_pivot.columns,
     rows |-> merge_rows(df_pivot.rows)]

-----------------------------------------------------------------------------
(* The state: the workbook on disk, the st.cache_data entry of             *)
(* load_and_process_data, the position of the script run, the locals of    *)
(* the function while it runs, the exception in flight, the script's df,   *)
(* the elements the run has put on the page, and whether the run was       *)
(* served from the cache.                                                  *)

EmptyLocals ==
    [df_pop_raw |-> DataFrame, df_pop |-> DataFrame, target_year |-> Text(""),
     df_pivot |-> DataFrame, result |-> DataFrame, messages |-> {}]

EmptyCache == [set |-> FALSE, value |-> DataFrame, messages |-> {}]

\* The two st.error messages of the program.
PIPELINE_ERROR == "error while processing the data"

LOAD_FAILURE == "data load failed, check the data folder"

TABS == "tabs"

\* The exceptions the steps raise; all are subclasses of Exception.
Exceptions == {"FileNotFoundError", "BadZipFile", "KeyError", "ValueError"}

\* Variant of except_Exception: the handler written for the missing file
\* only.
except_FileNotFoundError(e) == e = "FileNotFoundError"

\* except Exception as e: whether the handler catches e.
except_Exception(e) == e \in Exceptions

Init ==
    /\ file \in [status : {"ok", "missing", "corrupt"}, table : Workbooks]
    /\ cache = EmptyCache
    /\ pc = "idle"
    /\ locals = EmptyLocals
    /\ exc = "none"
    /\ df = DataFrame
    /\ shown = {}
    /\ hit = FALSE

\* A step of the function body raises e: control goes to the handler.
Raise(e) ==
    /\ exc' = e
    /\ pc' = "except"
    /\ UNCHANGED <<file, cache, locals, df, shown, hit>>

\* A rerun of the script starts with a blank page.
ScriptRun ==
    /\ pc = "idle"
    /\ pc' = "call"
    /\ shown' = {}
    /\ df' = DataFrame
    /\ hit' = FALSE
    /\ UNCHANGED <<file, cache, locals, exc>>

\* Variant of Call: the function without @st.cache_data, every call runs
\* the body.
Call_uncached ==
    /\ pc = "call"
    /\ pc' = "read_excel"
    /\ UNCHANGED <<file, cache, locals, exc, df, shown, hit>>

\* df = load_and_process_data() under @st.cache_data: a cached value is
\* returned without running the body; whether the elements the body wrote
\* are written again depends on the Streamlit release.
Call ==
    /\ pc = "call"
    /\ IF cache.set
       THEN /\ df' = cache.value
            /\ \E replayed \in {cache.messages, {}} :
                 shown' = shown \cup replayed
            /\ hit' = TRUE
            /\ pc' = "render"
       ELSE /\ pc' = "read_excel"
            /\ UNCHANGED <<df, shown, hit>>
    /\ UNCHANGED <<file, cache, locals, exc>>

ReadExcel ==
    /\ pc = "read_excel"
    /\ IF file.status = "missing" THEN Raise("FileNotFoundError")
       ELSE IF file.status = "corrupt" THEN Raise("BadZipFile")
       ELSE /\ locals' = [locals EXCEPT !.df_pop_raw = file.table]
            /\ pc' = "filter"
            /\ UNCHANGED <<file, cache, exc, df, shown, hit>>

Filter ==
    /\ pc = "filter"
    /\ IF filter_raises(locals.df_pop_raw) # "none"
       THEN Raise(filter_raises(locals.df_pop_raw))
       ELSE /\ locals' =
                 [locals EXCEPT
                    !.df_pop = filter_total(locals.df_pop_raw),
                    !.target_year = target_year(locals.df_pop_raw.columns)]
            /\ pc' = "pivot"
            /\ UNCHANGED <<file, cache, exc, df, shown, hit>>

Pivot ==
    /\ pc = "pivot"
    /\ IF pivot_raises(locals.df_pop, locals.target_year) # "none"
       THEN Raise(pivot_raises(locals.df_pop, locals.target_year))
       ELSE /\ locals' =
                 [locals EXCEPT
                    !.df_pivot =
                        strip_index(pivot(locals.df_pop, locals.target_year))]
            /\ pc' = "assign"
            /\ UNCHANGED <<file, cache, exc, df, shown, hit>>

Assign ==
    /\ pc = "assign"
    /\ IF assign_raises(locals.df_pivot) # "none"
       THEN Raise(assign_raises(locals.df_pivot))
       ELSE /\ locals' = [locals EXCEPT !.df_pivot = assign(locals.df_pivot)]
            /\ pc' = "merge"
            /\ UNCHANGED <<file, cache, exc, df, shown, hit>>

\* The two merges and return merged.
Merge ==
    /\ pc = "merge"
    /\ locals' = [locals EXCEPT !.result = merge(locals.df_pivot)]
    /\ pc' = "return"
    /\ UNCHANGED <<file, cache, exc, df, shown, hit>>

\* except Exception as e: st.error(...); return pd.DataFrame().  An
\* exception the handler does not catch ends the script run.
Except ==
    /\ pc = "except"
    /\ exc' = "none"
    /\ IF except_Exception(exc)
       THEN /\ shown' = shown \cup {PIPELINE_ERROR}
            /\ locals' = [locals EXCEPT !.result = DataFrame,
                                        !.messages = {PIPELINE_ERROR}]
            /\ pc' = "return"
       ELSE /\ locals' = EmptyLocals
            /\ pc' = "crashed"
            /\ UNCHANGED shown
    /\ UNCHANGED <<file, cache, df, hit>>

\* Variant of Return: a result that came from the handler is not stored.
Return_unless_failed ==
    /\ pc = "return"
    /\ cache' = IF locals.messages = {}
                THEN [set |-> TRUE, value |-> locals.result,
                      messages |-> locals.messages]
                ELSE cache
    /\ df' = locals.result
    /\ locals' = EmptyLocals
    /\ pc' = "render"
    /\ UNCHANGED <<file, exc, shown, hit>>

\* The function returns: the decorator stores the value with the elements
\* written, and the script's df gets it.
Return ==
    /\ pc = "return"
    /\ cache' = [set |-> TRUE, value |-> locals.result,
                 messages |-> locals.messages]
    /\ df' = locals.result
    /\ locals' = EmptyLocals
    /\ pc' = "render"
    /\ UNCHANGED <<file, exc, shown, hit>>

\* if not df.empty: the tabs; else: the load-failure message.
Render ==
    /\ pc = "render"
    /\ shown' = shown \cup (IF ~ empty(df) THEN {TABS} ELSE {LOAD_FAILURE})
    /\ pc' = "done"
    /\ UNCHANGED <<file, cache, locals, exc, df, hit>>

\* The script run is over; the page stays as it is until the next rerun.
EndRun ==
    /\ pc \in {"done", "crashed"}
    /\ pc' = "idle"
    /\ UNCHANGED <<file, cache, locals, exc, df, shown, hit>>

\* Between runs the workbook is deleted, or put (back) in place.
FileRemoved ==
    /\ pc = "idle"
    /\ file.status = "ok"
    /\ file' = [file EXCEPT !.status = "missing"]
    /\ UNCHANGED <<cache, pc, locals, exc, df, shown, hit>>

FileRestored ==
    /\ pc = "idle"
    /\ file.status # "ok"
    /\ file' = [file EXCEPT !.status = "ok"]
    /\ UNCHANGED <<cache, pc, locals, exc, df, shown, hit>>

\* The process is restarted: the cache entry and the run in progress go.
Restart ==
    /\ cache.set \/ pc # "idle"
    /\ cache' = EmptyCache
    /\ pc' = "idle"
    /\ locals' = EmptyLocals
    /\ exc' = "none"
    /\ df' = DataFrame
    /\ shown' = {}
    /\ hit' = FALSE
    /\ UNCHANGED file

Next ==
    \/ ScriptRun
    \/ Call
    \/ ReadExcel
    \/ Filter
    \/ Pivot
    \/ Assign
    \/ Merge
    \/ Except
    \/ Return
    \/ Render
    \/ EndRun
    \/ FileRemoved
    \/ FileRestored
    \/ Restart

Spec == Init /\ [][Next]_vars

-----------------------------------------------------------------------------
(* What the properties below speak of. *)

\* The function has just run its body and returned: df is its fresh result
\* for the workbook as it is on disk.
Fresh == pc \in {"render", "done"} /\ ~ hit

\* The rows of the workbook the function keeps.
Aggregate(f) == { r \in DOMAIN f.table.rows : r[COL_GENDER] = GYE }

\* Something goes wrong while the body runs on f: the file is missing or
\* unreadable, a key column or both year columns are absent, no aggregate
\* age row exists, or a district/age pair occurs twice.
GoesWrong(f) ==
    \/ f.status # "ok"
    \/ ~ (KeyColumns \subseteq f.table.columns)
    \/ \A c \in f.table.columns : str(c) \notin {"2024", "2023"}
    \/ GYE \notin { r[COL_AGE] : r \in Aggregate(f) }
    \/ \E r \in Aggregate(f) :
          \/ f.table.rows[r] > 1
          \/ \E q \in Aggregate(f) :
                /\ q # r
                /\ q[COL_DISTRICT] = r[COL_DISTRICT]
                /\ q[COL_AGE] = r[COL_AGE]

PopulationNames(f) == { strip(r[COL_DISTRICT]) : r \in DOMAIN f.table.rows }

PriceNames == { PRICE_DATA_2024[i][1] : i \in 1..Len(PRICE_DATA_2024) }

AcademyNames == { ACADEMY_DATA[i][1] : i \in 1..Len(ACADEMY_DATA) }

InAllThree(f) == PopulationNames(f) \cap PriceNames \cap AcademyNames

RowCount(d) == BagCardinality(d.rows)

\* The year column the values are taken from: 2024 when a column has that
\* label, else 2023.
YearUsed(columns) ==
    IF \E c \in columns : str(c) = "2024" THEN "2024" ELSE "2023"

\* A run on f would show the merged table.
Loadable(f) == ~ GoesWrong(f) /\ InAllThree(f) # {}

\* The cache holds the result of a run that went through the handler.
FailureCached == cache.set /\ PIPELINE_ERROR \in cache.messages

\* The workbook of the scenario: one district, the four brackets at 10000,
\* the aggregate at 100000, in the year column "2024".
Scenario(A) == Frame(KeyColumns \cup {Text("2024")}, {GANGNAM}, A, "flat")

\* The row the scenario expects.
ScenarioRow(r) ==
    /\ r.region = GANGNAM
    /\ r.infant = Whole(14000)
    /\ r.elementary = Whole(12000)
    /\ r.adolescent = Whole(12000)
    /\ r.ratio_infant = Whole(14)
    /\ r.ratio_elem = Whole(12)
    /\ r.ratio_adol = Whole(12)
    /\ r.price = 8150
    /\ r.academy_count = 2578

\* x = y * 100 / t, by cross-multiplication.
IsPercentOf(x, y, t) ==
    /\ isfinite(x)
    /\ x.n * y.d * t.n = 100 * y.n * t.d * x.d

\* The cells of r in the columns S that r has.
CellSum(r, S) == nansum(r.cells, S \cap DOMAIN r.cells)

-----------------------------------------------------------------------------
(* The claims. *)

\* C1: when the body runs through, the number of rows returned is the
\* number of district names that are in all three sources (population names
\* stripped), and every row is of such a name.
C1_RowCountIsIntersection ==
    (Fresh /\ ~ GoesWrong(file)) =>
        /\ RowCount(df) = Cardinality(InAllThree(file))
        /\ \A r \in DOMAIN df.rows : r.region \in InAllThree(file)

\* C2: whatever goes wrong inside load_and_process_data, no exception
\* escapes: every exception raised is one the handler catches, the script
\* run never ends in a crash, and the call returns the empty DataFrame with
\* the pipeline-error message on the page.
C2_NoExceptionEscapes ==
    /\ pc # "crashed"
    /\ pc = "except" => except_Exception(exc)
    /\ (Fresh /\ GoesWrong(file)) =>
          /\ df = DataFrame
          /\ empty(df)
          /\ PIPELINE_ERROR \in shown

\* C2, reached: a run on a readable workbook with a schema fault has ended.
C2_Witness ==
    /\ pc = "done" /\ ~ hit
    /\ file.status = "ok" /\ GoesWrong(file)
    /\ PIPELINE_ERROR \in shown

C4_YearSelection ==
    /\ (pc \in {"pivot", "assign"}
            /\ \E c \in locals.df_pop.columns : str(c) \in {"2024", "2023"}) =>
          /\ locals.target_year \in locals.df_pop.columns
          /\ str(locals.target_year) = YearUsed(locals.df_pop.columns)
    /\ pc = "assign" =>
          \A r \in DOMAIN locals.df_pop.rows :
             \E p \in DOMAIN locals.df_pivot.rows :
                /\ p.index = strip(r[COL_DISTRICT])
                /\ \E y \in locals.df_pop.columns :
                      /\ str(y) = YearUsed(locals.df_pop.columns)
                      /\ p.cells[r[COL_AGE]] = Whole(r[y])
    /\ (Fresh /\ ~ GoesWrong(file)) => PIPELINE_ERROR \notin shown

\* C4, reached: 2024 is absent, 2023 is a number, and the pivot is done.
C4_Witness ==
    /\ pc = "assign"
    /\ locals.target_year = Number("2023")
    /\ locals.df_pivot.rows # EmptyBag

\* C5: a district whose aggregate population is 0 raises nothing; when it
\* is in both reference tables its row is in the result with a non-finite
\* value in each of the four ratio columns, and every row of a district
\* with a population has its finite ratios.
C5_ZeroTotal ==
    (Fresh /\ ~ GoesWrong(file)) =>
        /\ PIPELINE_ERROR \notin shown
        /\ \A a \in Aggregate(file) :
              (/\ a[COL_AGE] = GYE
               /\ \E y \in file.table.columns :
                     str(y) = YearUsed(file.table.columns) /\ a[y] = 0
               /\ strip(a[COL_DISTRICT]) \in PriceNames \cap AcademyNames) =>
                  \E r \in DOMAIN df.rows :
                     /\ r.region = strip(a[COL_DISTRICT])
                     /\ r.total_pop = Whole(0)
                     /\ ~ isfinite(r.ratio_infant)
                     /\ ~ isfinite(r.ratio_elem)
                     /\ ~ isfinite(r.ratio_adol)
                     /\ ~ isfinite(r.ratio_total_youth)
        /\ \A r \in DOMAIN df.rows :
              r.total_pop # Whole(0) =>
                  /\ IsPercentOf(r.ratio_infant, r.infant, r.total_pop)
                  /\ IsPercentOf(r.ratio_elem, r.elementary, r.total_pop)
                  /\ IsPercentOf(r.ratio_adol, r.adolescent, r.total_pop)
                  /\ isfinite(r.ratio_total_youth)

\* C5, reached: a result with a row of population 0, inf in one ratio and
\* NaN in none or some, beside a row of a district with a population.
C5_Witness ==
    /\ pc = "done" /\ ~ hit
    /\ \E r \in DOMAIN df.rows : r.total_pop = Whole(0) /\ r.ratio_infant = INF
    /\ \E r \in DOMAIN df.rows : r.total_pop # Whole(0)

\* The steps of the body, between the call and the return.
BodySteps == {"read_excel", "filter", "pivot", "assign", "merge", "except", "return"}

\* The table all steps of the body build from a workbook they accept.
Merged(table) ==
    merge(assign(strip_index(pivot(filter_total(table), target_year(table.columns)))))

\* C6: the body runs only while nothing is cached; the cached value is a
\* finished result (the handler's empty DataFrame or the fully merged
\* table, never a table in the making) and is what a run renders; a call
\* that finds a cached value returns it without running the body and
\* leaves it as it is; a cached value is never overwritten, it changes only
\* by being invalidated.
C6_ComputedOnce ==
    /\ [](pc \in BodySteps => ~ cache.set)
    /\ [](cache.set =>
            \/ cache.value = DataFrame
            \/ ~ GoesWrong([file EXCEPT !.status = "ok"])
                  /\ cache.value = Merged(file.table))
    /\ [](pc \in {"render", "done"} => cache.set /\ df = cache.value)
    /\ [][(pc = "call" /\ cache.set /\ pc' # "idle") =>
             (pc' = "render" /\ df' = cache.value /\ cache' = cache)]_vars
    /\ [][(cache.set /\ cache' # cache) => ~ cache'.set]_vars

\* C6, reached: a later run is served the merged table from the cache.
C6_Witness ==
    /\ pc = "render" /\ hit
    /\ cache.set /\ df = cache.value /\ RowCount(df) > 0

C8_OneRowPerDistrict ==
    /\ pc \in {"assign", "merge"} =>
          \A p \in DOMAIN locals.df_pivot.rows :
             /\ locals.df_pivot.rows[p] = 1
             /\ \A q \in DOMAIN locals.df_pivot.rows : q.index = p.index => q = p
    /\ pc \in {"render", "done"} =>
          \A p \in DOMAIN df.rows :
             /\ df.rows[p] = 1
             /\ \A q \in DOMAIN df.rows : q.region = p.region => q = p

\* C9: a bracket none of whose labels is in the pivoted table counts 0 and
\* the run still returns the merged rows without error; a bracket with
\* several labels that contain its keyword counts their sum.  Of the labels
\* of the model, "0 - 4se" and "0 - 4se " contain the first keyword, and
\* each other keyword is contained in its own label only.
C9_BracketSums ==
    (Fresh /\ ~ GoesWrong(file)) =>
        /\ PIPELINE_ERROR \notin shown
        /\ { r.region : r \in DOMAIN df.rows } = InAllThree(file)
        /\ \A r \in DOMAIN df.rows :
              LET c_0_4 == CellSum(r, {A_0_4, A_0_4_T})
                  c_5_9 == CellSum(r, {A_5_9})
                  c_10_14 == CellSum(r, {A_10_14})
                  c_15_19 == CellSum(r, {A_15_19})
              IN  /\ r.infant = add(c_0_4, mul(c_5_9, Fin(4, 10)))
                  /\ r.elementary =
                        add(mul(c_5_9, Fin(6, 10)), mul(c_10_14, Fin(6, 10)))
                  /\ r.adolescent =
                        add(mul(c_10_14, Fin(4, 10)), mul(c_15_19, Fin(8, 10)))

\* C9, reached: a result from a table without a 5 - 9 label and with two
\* 0 - 4 labels.
C9_Witness ==
    /\ pc = "done" /\ ~ hit
    /\ \E r \in DOMAIN df.rows :
          /\ A_5_9 \notin DOMAIN r.cells
          /\ A_0_4_T \in DOMAIN r.cells
          /\ r.infant = add(r.cells[A_0_4], r.cells[A_0_4_T])
          /\ r.elementary = mul(r.cells[A_10_14], Fin(6, 10))
          /\ r.infant # Whole(0)

\* C10: a finished run shows the load-failure message, and no tabs, exactly
\* when the result has no row; the pipeline-error message is on the page
\* only when the body raised, in this run or in the run whose result is
\* cached.
C10_LoadFailureIffEmpty ==
    /\ pc = "done" =>
          /\ LOAD_FAILURE \in shown <=> RowCount(df) = 0
          /\ TABS \in shown <=> RowCount(df) # 0
    /\ (pc \in {"render", "done"} /\ PIPELINE_ERROR \in shown) =>
          IF hit THEN FailureCached ELSE GoesWrong(file)

\* C10, reached: the body ran through, no district matched a reference
\* entry, and the run ends in the load-failure state without the
\* pipeline-error message.
C10_Witness ==
    /\ pc = "done" /\ ~ hit
    /\ ~ GoesWrong(file)
    /\ LOAD_FAILURE \in shown
    /\ PIPELINE_ERROR \notin shown
    /\ TABS \notin shown

====
